---------------------------- MODULE Spec2Model ----------------------------
(***************************************************************************)
(* Model of mars-airdrop-stats (src/src/main.rs).                          *)
(*                                                                         *)
(* main() reads a JSON list of {address, amount}, keeps the first five     *)
(* entries, and for each of them runs one future inside                    *)
(* futures::future::try_join_all: the address is re-encoded under the      *)
(* "mars" prefix (bech32::decode / bech32::encode), the auth module is     *)
(* asked for the account's sequence, the staking module for the            *)
(* delegations, the balances are summed, the record is printed and         *)
(* returned.  When every future has returned Ok the records are written    *)
(* to the output file; the first Err ends the join and the run.            *)
(*                                                                         *)
(* Strings are sequences of character codes (ASCII), so that decoding,     *)
(* encoding and integer parsing are computed, character by character, the  *)
(* way the program computes them.  u128 values are sequences of decimal    *)
(* digits (most significant first), because 2^128 does not fit the model   *)
(* checker's integers.                                                     *)
(***************************************************************************)
EXTENDS Integers, Sequences, FiniteSets, TLC

VARIABLES
    \* ---- the run (main) ----
    input_file,      \* what fs::read_to_string / serde_json find at input_path
    remote,          \* the gRPC endpoint: normalized address -> its replies
    fs_write_ok,     \* whether fs::write(&output_path, ..) succeeds
    overflow_checks, \* the build: TRUE = `+=` panics on overflow, FALSE = wraps
    pc_main,         \* where main() is
    users,           \* Vec<Input> after truncate(5)
    task_pc,         \* per future: the await point it is suspended at
    address,         \* per future: the local `address`
    sequence,        \* per future: the local `sequence`
    results,         \* per future: the Ok(output) slot kept by try_join_all
    queries,         \* every connection / request issued to the endpoint
    console,         \* lines printed by println!
    output_file,     \* the file at output_path
    error,           \* the Err main() returned (or the panic)
    failure,         \* which future returned the Err, and at which await point
    \* ---- bech32 re-encoding applied to one string ----
    norm_pc, raw, once, twice,
    \* ---- try_fold over one delegation list ----
    fold_pc, fold_checks, fold_list, fold_result

vars == <<input_file, remote, fs_write_ok, overflow_checks, pc_main, users,
          task_pc, address, sequence, results, queries, console, output_file,
          error, failure, norm_pc, raw, once, twice,
          fold_pc, fold_checks, fold_list, fold_result>>

main_vars == <<input_file, remote, fs_write_ok, overflow_checks, pc_main, users,
               task_pc, address, sequence, results, queries, console,
               output_file, error, failure>>
norm_vars == <<norm_pc, raw, once, twice>>
fold_vars == <<fold_pc, fold_checks, fold_list, fold_result>>

-----------------------------------------------------------------------------
(* Strings *)

\* "mars", the destination prefix of bech32::encode (main.rs:92)
MARS == <<109, 97, 114, 115>>
\* '1', the bech32 separator
SEP == 49

is_lowercase(c) == c >= 97 /\ c <= 122
is_uppercase(c) == c >= 65 /\ c <= 90
to_lower(c) == IF is_uppercase(c) THEN c + 32 ELSE c
to_upper(c) == IF is_lowercase(c) THEN c - 32 ELSE c
to_lowercase(s) == [i \in 1..Len(s) |-> to_lower(s[i])]
to_uppercase(s) == [i \in 1..Len(s) |-> to_upper(s[i])]

-----------------------------------------------------------------------------
(* bech32 (the crate called at main.rs:91-92; BIP-173 / BIP-350) *)

\* "qpzry9x8gf2tvdw0s3jn54khce6mua7l"
CHARSET == <<113, 112, 122, 114, 121, 57, 120, 56, 103, 102, 50, 116, 118, 100,
             119, 48, 115, 51, 106, 110, 53, 52, 107, 104, 99, 101, 54, 109,
             117, 97, 55, 108>>

\* value of a character, either case; -1 when it is not in the charset
CHARSET_REV(c) ==
    IF \E k \in 1..32 : CHARSET[k] = to_lower(c)
    THEN (CHOOSE k \in 1..32 : CHARSET[k] = to_lower(c)) - 1
    ELSE -1

GEN == <<996825010, 642813549, 513874426, 1027748829, 705979059>>

\* Variant::Bech32 / Variant::Bech32m checksum constants
variant_constant(variant) == IF variant = "Bech32" THEN 1 ELSE 734539939

\* bitwise exclusive or of two non-negative integers
RECURSIVE Xor(_, _)
Xor(a, b) ==
    IF a = 0 THEN b
    ELSE IF b = 0 THEN a
    ELSE ((a + b) % 2) + 2 * Xor(a \div 2, b \div 2)

gen_xor(chk, b, i) ==
    IF (b \div (2 ^ i)) % 2 = 1 THEN Xor(chk, GEN[i + 1]) ELSE chk

\* one round of polymod: b = chk >> 25; chk = (chk & 0x1ffffff) << 5 ^ v; ...
polymod_step(chk, v) ==
    LET b  == chk \div 33554432
        c0 == Xor((chk % 33554432) * 32, v)
    IN  gen_xor(gen_xor(gen_xor(gen_xor(gen_xor(c0, b, 0), b, 1), b, 2), b, 3), b, 4)

RECURSIVE polymod_from(_, _, _)
polymod_from(chk, values, k) ==
    IF k > Len(values) THEN chk
    ELSE polymod_from(polymod_step(chk, values[k]), values, k + 1)

polymod(values) == polymod_from(1, values, 1)

hrp_expand(hrp) ==
    [i \in 1..Len(hrp) |-> hrp[i] \div 32] \o <<0>> \o
    [i \in 1..Len(hrp) |-> hrp[i] % 32]

\* Variant::from_remainder
verify_checksum(hrp, data) ==
    LET r == polymod(hrp_expand(hrp) \o data)
    IN  IF r = 1 THEN "Bech32"
        ELSE IF r = 734539939 THEN "Bech32m"
        ELSE "none"

\* the six checksum values the writer appends in finalize()
create_checksum(hrp, data, variant) ==
    LET plm == Xor(polymod(hrp_expand(hrp) \o data \o <<0, 0, 0, 0, 0, 0>>),
                   variant_constant(variant))
    IN  [p \in 1..6 |-> (plm \div (32 ^ (6 - p))) % 32]

\* check_hrp: Ok(Case) or Err
check_hrp(hrp) ==
    IF Len(hrp) = 0 \/ Len(hrp) > 83 THEN [ok |-> FALSE, err |-> "InvalidLength"]
    ELSE IF \E i \in 1..Len(hrp) : hrp[i] < 33 \/ hrp[i] > 126
         THEN [ok |-> FALSE, err |-> "InvalidChar"]
    ELSE LET has_lower == \E i \in 1..Len(hrp) : is_lowercase(hrp[i])
             has_upper == \E i \in 1..Len(hrp) : is_uppercase(hrp[i])
         IN  IF has_lower /\ has_upper THEN [ok |-> FALSE, err |-> "MixedCase"]
             ELSE [ok |-> TRUE,
                   case |-> IF has_upper THEN "Upper"
                            ELSE IF has_lower THEN "Lower" ELSE "None"]

\* s.rfind('1'): position of the last separator, 0 when there is none
rfind_sep(s) ==
    IF \E i \in 1..Len(s) : s[i] = SEP
    THEN CHOOSE i \in 1..Len(s) : s[i] = SEP /\ \A j \in (i + 1)..Len(s) : s[j] # SEP
    ELSE 0

\* the data part of split_and_decode, one character at a time
RECURSIVE decode_data(_, _, _, _)
decode_data(raw_data, k, case, acc) ==
    IF k > Len(raw_data) THEN [ok |-> TRUE, data |-> acc]
    ELSE LET c == raw_data[k] IN
         IF c >= 128 THEN [ok |-> FALSE, err |-> "InvalidChar"]
         ELSE IF is_lowercase(c) /\ case = "Upper" THEN [ok |-> FALSE, err |-> "MixedCase"]
         ELSE IF is_uppercase(c) /\ case = "Lower" THEN [ok |-> FALSE, err |-> "MixedCase"]
         ELSE IF CHARSET_REV(c) = -1 THEN [ok |-> FALSE, err |-> "InvalidChar"]
         ELSE decode_data(raw_data, k + 1,
                          IF is_lowercase(c) THEN "Lower"
                          ELSE IF is_uppercase(c) THEN "Upper" ELSE case,
                          Append(acc, CHARSET_REV(c)))

split_and_decode(s) ==
    LET parts(raw_hrp, chk, d) ==
            IF ~chk.ok THEN chk
            ELSE IF ~d.ok THEN d
            ELSE [ok |-> TRUE,
                  hrp |-> IF chk.case = "Upper" THEN to_lowercase(raw_hrp)
                          ELSE raw_hrp,
                  data |-> d.data]
        checked(raw_hrp, raw_data, chk) ==
            parts(raw_hrp, chk,
                  IF chk.ok THEN decode_data(raw_data, 1, chk.case, <<>>) ELSE chk)
        split(sep) ==
            IF sep = 0 THEN [ok |-> FALSE, err |-> "MissingSeparator"]
            ELSE checked(SubSeq(s, 1, sep - 1), SubSeq(s, sep + 1, Len(s)),
                         check_hrp(SubSeq(s, 1, sep - 1)))
    IN  split(rfind_sep(s))

\* bech32::decode(&user.address)
decode(s) ==
    LET verified(sd, variant) ==
            IF variant = "none" THEN [ok |-> FALSE, err |-> "InvalidChecksum"]
            ELSE [ok |-> TRUE, hrp |-> sd.hrp,
                  data |-> SubSeq(sd.data, 1, Len(sd.data) - 6),
                  variant |-> variant]
        checked(sd) ==
            IF ~sd.ok THEN sd
            ELSE IF Len(sd.data) < 6 THEN [ok |-> FALSE, err |-> "InvalidLength"]
            ELSE verified(sd, verify_checksum(sd.hrp, sd.data))
    IN  checked(split_and_decode(s))

\* a plausible slip: the checksum is always the Bech32 one, whatever the variant
encode_ignoring_variant(hrp, data, variant) ==
    LET written(hrp_lower, cs) ==
            [ok |-> TRUE,
             str |-> hrp_lower \o <<SEP>> \o
                     [i \in 1..Len(data) |-> CHARSET[data[i] + 1]] \o
                     [i \in 1..6 |-> CHARSET[cs[i] + 1]]]
        lowered(hrp_lower) ==
            written(hrp_lower, create_checksum(hrp_lower, data, "Bech32"))
        checked(chk) ==
            IF ~chk.ok THEN chk
            ELSE lowered(IF chk.case = "Upper" THEN to_lowercase(hrp) ELSE hrp)
    IN  checked(check_hrp(hrp))

\* bech32::encode(hrp, data, variant)
encode(hrp, data, variant) ==
    LET written(hrp_lower, cs) ==
            [ok |-> TRUE,
             str |-> hrp_lower \o <<SEP>> \o
                     [i \in 1..Len(data) |-> CHARSET[data[i] + 1]] \o
                     [i \in 1..6 |-> CHARSET[cs[i] + 1]]]
        lowered(hrp_lower) ==
            written(hrp_lower, create_checksum(hrp_lower, data, variant))
        checked(chk) ==
            IF ~chk.ok THEN chk
            ELSE lowered(IF chk.case = "Upper" THEN to_lowercase(hrp) ELSE hrp)
    IN  checked(check_hrp(hrp))

\* main.rs:91-92: decode, then encode under "mars"; `?` returns the error
normalize_compute(s) ==
    LET encoded(e) ==
            IF ~e.ok THEN [ok |-> FALSE, kind |-> "Bech32", err |-> e.err]
            ELSE [ok |-> TRUE, address |-> e.str]
        decoded(d) ==
            IF ~d.ok THEN [ok |-> FALSE, kind |-> "Bech32", err |-> d.err]
            ELSE encoded(encode(MARS, d.data, d.variant))
    IN  decoded(decode(s))

\* "mars1r30qpav3": payload <<3, 17>>, Bech32, already under the mars prefix
ADDR_MARS_A == <<109, 97, 114, 115, 49, 114, 51, 48, 113, 112, 97, 118, 51>>
\* "osmo1r3mjc23m": the same payload under another prefix
ADDR_OSMO_A == <<111, 115, 109, 111, 49, 114, 51, 109, 106, 99, 50, 51, 109>>
\* "mars1lqf3tdze6": payload <<31, 0, 9>>, Bech32m
ADDR_MARS_B == <<109, 97, 114, 115, 49, 108, 113, 102, 51, 116, 100, 122, 101, 54>>
\* "mars1r30qpav4": ADDR_MARS_A with its last checksum character changed
BAD_CHECKSUM == <<109, 97, 114, 115, 49, 114, 51, 48, 113, 112, 97, 118, 52>>
\* "mars1r3bqpav3": 'b' is not a bech32 character
BAD_CHAR == <<109, 97, 114, 115, 49, 114, 51, 98, 113, 112, 97, 118, 51>>
\* "mars1pav3": fewer than six characters after the separator
BAD_LENGTH == <<109, 97, 114, 115, 49, 112, 97, 118, 51>>

\* the addresses the explored input files hold
FileAddresses ==
    {ADDR_MARS_A, ADDR_OSMO_A, ADDR_MARS_B, BAD_CHECKSUM, BAD_CHAR, BAD_LENGTH}

\* normalize_compute of these addresses, computed once
NORMALIZED == [s \in FileAddresses |-> normalize_compute(s)]

\* a plausible slip: an address that does not decode is used as it is
normalize_or_raw(s) ==
    LET lenient(n) == IF n.ok THEN n ELSE [ok |-> TRUE, address |-> s]
    IN  lenient(IF s \in FileAddresses THEN NORMALIZED[s] ELSE normalize_compute(s))

normalize(s) ==
    IF s \in FileAddresses THEN NORMALIZED[s] ELSE normalize_compute(s)

\* whether bech32::decode accepts these addresses, computed once
DECODES == [s \in FileAddresses |-> decode(s).ok]
Decodes(s) == IF s \in FileAddresses THEN DECODES[s] ELSE decode(s).ok

-----------------------------------------------------------------------------
(* u128 values: decimal digits, most significant first, no leading zero *)

ZERO == <<0>>
\* u128::MAX = 2^128 - 1 = 340282366920938463463374607431768211455
U128_MAX == <<3,4,0,2,8,2,3,6,6,9,2,0,9,3,8,4,6,3,4,6,3,3,7,4,6,0,7,4,3,1,7,6,8,2,1,1,4,5,5>>
\* 2^128
TWO_POW_128 == <<3,4,0,2,8,2,3,6,6,9,2,0,9,3,8,4,6,3,4,6,3,3,7,4,6,0,7,4,3,1,7,6,8,2,1,1,4,5,6>>

Max(a, b) == IF a >= b THEN a ELSE b

\* the k-th least significant digit
digit_at(n, k) == IF k <= Len(n) THEN n[Len(n) + 1 - k] ELSE 0

\* n without its leading zeros; zero keeps one digit
strip_zeros(n) ==
    IF Len(n) = 0 THEN n
    ELSE IF \A i \in 1..Len(n) : n[i] = 0 THEN <<0>>
    ELSE SubSeq(n, CHOOSE i \in 1..Len(n) :
                       n[i] # 0 /\ \A j \in 1..(i - 1) : n[j] = 0, Len(n))

\* the carry into digit k of a + b: some lower digit pair generates a carry
\* and every pair between it and k propagates it
carry_into(a, b, k) ==
    IF \E j \in 1..(k - 1) :
          /\ digit_at(a, j) + digit_at(b, j) >= 10
          /\ \A m \in (j + 1)..(k - 1) : digit_at(a, m) + digit_at(b, m) = 9
    THEN 1 ELSE 0

\* a + b, unbounded
DecAdd(a, b) ==
    LET sum(len) ==
            [i \in 1..len |->
               (digit_at(a, len + 1 - i) + digit_at(b, len + 1 - i)
                  + carry_into(a, b, len + 1 - i)) % 10]
    IN  sum(Max(Len(a), Len(b)) + carry_into(a, b, Max(Len(a), Len(b)) + 1))

DecLess(a, b) ==
    \/ Len(a) < Len(b)
    \/ /\ Len(a) = Len(b)
       /\ \E k \in 1..Len(a) : a[k] < b[k] /\ \A j \in 1..(k - 1) : a[j] = b[j]

\* the borrow from digit k of a - b: some lower digit of a is smaller than
\* b's and every digit pair between it and k is equal
borrow_from(a, b, k) ==
    IF \E j \in 1..(k - 1) :
          /\ digit_at(a, j) < digit_at(b, j)
          /\ \A m \in (j + 1)..(k - 1) : digit_at(a, m) = digit_at(b, m)
    THEN 1 ELSE 0

\* a - b, for a >= b
DecSub(a, b) ==
    strip_zeros([i \in 1..Len(a) |->
                   (digit_at(a, Len(a) + 1 - i) - digit_at(b, Len(a) + 1 - i)
                      - borrow_from(a, b, Len(a) + 1 - i) + 10) % 10])

fits_u128(n) == ~DecLess(U128_MAX, n)

\* u128::checked_add
checked_add(a, b) ==
    LET checked(s) == IF fits_u128(s) THEN [ok |-> TRUE, val |-> s] ELSE [ok |-> FALSE]
    IN  checked(DecAdd(a, b))

\* u128::wrapping_add: the sum modulo 2^128
wrapping_add(a, b) ==
    LET wrapped(s) == IF fits_u128(s) THEN s ELSE DecSub(s, TWO_POW_128)
    IN  wrapped(DecAdd(a, b))

is_digit(c) == c >= 48 /\ c <= 57

\* the digit loop of <u128 as FromStr>::from_str: a character that is not a
\* digit is InvalidDigit, a value past u128::MAX is PosOverflow (checked_mul(10),
\* checked_add(digit)); both are a ParseIntError
parse_digits(digits) ==
    LET value(v) ==
            IF fits_u128(v) THEN [ok |-> TRUE, val |-> v]
            ELSE [ok |-> FALSE, kind |-> "ParseInt"]
    IN  IF \E k \in 1..Len(digits) : ~is_digit(digits[k])
        THEN [ok |-> FALSE, kind |-> "ParseInt"]
        ELSE value(strip_zeros([k \in 1..Len(digits) |-> digits[k] - 48]))

\* a plausible slip: a string that does not parse counts as zero
parse_u128_or_zero(src) ==
    IF Len(src) = 0 THEN [ok |-> TRUE, val |-> ZERO]
    ELSE LET lenient(r) == IF r.ok THEN r ELSE [ok |-> TRUE, val |-> ZERO]
         IN  lenient(parse_digits(src))

\* coin.amount.parse::<u128>() (main.rs:122)
parse_u128(src) ==
    IF Len(src) = 0 THEN [ok |-> FALSE, kind |-> "ParseInt"]
    ELSE IF Len(src) = 1 /\ src[1] \in {43, 45} THEN [ok |-> FALSE, kind |-> "ParseInt"]
    ELSE IF src[1] = 43 THEN parse_digits(Tail(src))
    ELSE parse_digits(src)

-----------------------------------------------------------------------------
(* The sum of the delegations (main.rs:119-125) *)

NoBalance == [present |-> FALSE]
Balance(amount) == [present |-> TRUE, amount |-> amount]

\* a plausible slip: the accumulator is overwritten instead of added to
fold_closure_overwrite(total, del, checks) ==
    IF del.present
    THEN LET p == parse_u128(del.amount) IN
         IF ~p.ok THEN [kind |-> "err", error |-> [kind |-> "ParseInt"]]
         ELSE [kind |-> "ok", total |-> p.val]
    ELSE [kind |-> "ok", total |-> total]

\* the closure: if let Some(coin) = del.balance { total += parse? }; Ok(total)
fold_closure(total, del, checks) ==
    IF del.present
    THEN LET p == parse_u128(del.amount) IN
         IF ~p.ok THEN [kind |-> "err", error |-> [kind |-> "ParseInt"]]
         ELSE LET s == checked_add(total, p.val) IN
              IF s.ok THEN [kind |-> "ok", total |-> s.val]
              ELSE IF checks THEN [kind |-> "panic"]
              ELSE [kind |-> "ok", total |-> wrapping_add(total, p.val)]
    ELSE [kind |-> "ok", total |-> total]

RECURSIVE try_fold_from(_, _, _, _)
try_fold_from(dels, k, total, checks) ==
    IF k > Len(dels) THEN [kind |-> "ok", total |-> total]
    ELSE LET r == fold_closure(total, dels[k], checks)
         IN  IF r.kind = "ok" THEN try_fold_from(dels, k + 1, r.total, checks)
             ELSE r

\* .into_iter().try_fold(0u128, ..)
try_fold_compute(dels, checks) == try_fold_from(dels, 1, ZERO, checks)

\* u128 as Display prints it
to_string(n) == [i \in 1..Len(n) |-> n[i] + 48]

\* delegation lists: "5", none, "12" / "5", "x" / u128::MAX, "1"
DELS_17 == << Balance(<<53>>), NoBalance, Balance(<<49, 50>>) >>
DELS_BAD == << Balance(<<53>>), Balance(<<120>>) >>
DELS_OVERFLOW == << Balance(to_string(U128_MAX)), Balance(<<49>>) >>

\* try_fold_compute of the delegation lists the explored replies hold, computed once
ReplyLists == {<<>>, DELS_17, DELS_BAD, DELS_OVERFLOW}
FOLDED_CHECKED == [d \in ReplyLists |-> try_fold_compute(d, TRUE)]
FOLDED_WRAPPING == [d \in ReplyLists |-> try_fold_compute(d, FALSE)]

try_fold(dels, checks) ==
    IF dels \in ReplyLists
    THEN (IF checks THEN FOLDED_CHECKED[dels] ELSE FOLDED_WRAPPING[dels])
    ELSE try_fold_compute(dels, checks)

-----------------------------------------------------------------------------
(* The input file (main.rs:8-12, 83-85) *)

\* users.truncate(5)
BATCH_CAP == 5

Min(a, b) == IF a <= b THEN a ELSE b

\* a JSON number token / a JSON string token in the "amount" position
Num(text) == [json_type |-> "number", text |-> text]
Str(text) == [json_type |-> "string", text |-> text]

\* serde's u128 visitor: a non-negative integer JSON number that fits 128 bits
deserialize_u128(tok) ==
    IF tok.json_type # "number" \/ Len(tok.text) = 0
    THEN [ok |-> FALSE, kind |-> "Json"]
    ELSE LET number(r) == IF r.ok THEN r ELSE [ok |-> FALSE, kind |-> "Json"]
         IN  number(parse_digits(tok.text))

\* a plausible slip: only the entries that will be processed are validated
from_str_prefix(file) ==
    IF ~file.valid_json THEN [ok |-> FALSE, kind |-> "Json"]
    ELSE IF \E i \in 1..Min(BATCH_CAP, Len(file.entries)) :
                ~deserialize_u128(file.entries[i].amount).ok
         THEN [ok |-> FALSE, kind |-> "Json"]
    ELSE [ok |-> TRUE,
          val |-> [i \in 1..Min(BATCH_CAP, Len(file.entries)) |->
                     [address |-> file.entries[i].address,
                      amount  |-> deserialize_u128(file.entries[i].amount).val]]]

\* serde_json::from_str::<Vec<Input>>(&input_str)
from_str(file) ==
    IF ~file.valid_json THEN [ok |-> FALSE, kind |-> "Json"]
    ELSE IF \E i \in 1..Len(file.entries) : ~deserialize_u128(file.entries[i].amount).ok
         THEN [ok |-> FALSE, kind |-> "Json"]
    ELSE [ok |-> TRUE,
          val |-> [i \in 1..Len(file.entries) |->
                     [address |-> file.entries[i].address,
                      amount  |-> deserialize_u128(file.entries[i].amount).val]]]

\* a plausible slip: the cap is not applied
truncate_nothing(v, n) == v

\* Vec::truncate
truncate(v, n) == SubSeq(v, 1, Min(n, Len(v)))

-----------------------------------------------------------------------------
(* The remote endpoint: what it answers for one address *)

BASE_ACCOUNT == "/cosmos.auth.v1beta1.BaseAccount"
VESTING_ACCOUNT == "/cosmos.vesting.v1beta1.ContinuousVestingAccount"

NoAccount == [present |-> FALSE]
AnyMsg(type_url, seq) == [present |-> TRUE, type_url |-> type_url, sequence |-> seq]

\* <BaseAccount>::from_any (main.rs:103)
from_any(any) ==
    IF any.type_url = BASE_ACCOUNT THEN [ok |-> TRUE, sequence |-> any.sequence]
    ELSE [ok |-> FALSE, kind |-> "Decode"]

\* a plausible slip: a missing account counts as a fresh one (unwrap_or_default)
extract_sequence_or_default(account, addr) ==
    IF account.present /\ ~from_any(account).ok
    THEN [ok |-> FALSE, error |-> [kind |-> "Decode"]]
    ELSE IF ~account.present THEN [ok |-> TRUE, sequence |-> 0]
    ELSE [ok |-> TRUE, sequence |-> from_any(account).sequence]

\* .account.as_ref().map(from_any).transpose()?.ok_or_else(AccountNotFound)?.sequence
\* (main.rs:100-108)
extract_sequence(account, addr) ==
    IF account.present /\ ~from_any(account).ok
    THEN [ok |-> FALSE, error |-> [kind |-> "Decode"]]
    ELSE IF ~account.present
    THEN [ok |-> FALSE, error |-> [kind |-> "AccountNotFound", address |-> addr]]
    ELSE [ok |-> TRUE, sequence |-> from_any(account).sequence]

World(auth_connect, account_status, account, staking_connect, del_status, dels) ==
    [auth_connect    |-> auth_connect,
     account         |-> [status |-> account_status, account |-> account],
     staking_connect |-> staking_connect,
     delegations     |-> [status |-> del_status, delegation_responses |-> dels]]

Healthy(seq, dels) == World("ok", "ok", AnyMsg(BASE_ACCOUNT, seq), "ok", "ok", dels)

-----------------------------------------------------------------------------
(* main(): the join of the per-user futures (main.rs:72-147) *)

Tasks == 1..Len(users)

NoError == [kind |-> "none"]
NoResult == [present |-> FALSE]
NotWritten == [written |-> FALSE, records |-> <<>>]

\* a plausible slip: the two u128 fields are filled the wrong way round
OutputSwapped(a, seq, airdrop, staked) ==
    [address |-> a, sequence |-> seq, airdrop_amount |-> staked,
     staked_amount |-> airdrop]

\* Output { address, sequence, airdrop_amount: user.amount, staked_amount } (127-132)
Output(a, seq, airdrop, staked) ==
    [address |-> a, sequence |-> seq, airdrop_amount |-> airdrop,
     staked_amount |-> staked]

\* a plausible slip: the records are collected in completion order
JoinResultsCompletionOrder == [k \in 1..Len(console) |-> console[k].line]

\* the Vec try_join_all returns: slot i holds future i's output
JoinResults == [i \in Tasks |-> results[i].output]

Issue(i, request) == queries' = [queries EXCEPT ![i] = Append(@, request)]

\* a plausible slip: the error is kept and the join goes on (join_all, then collect)
FailLater(i, err) ==
    /\ task_pc' = [task_pc EXCEPT ![i] = "failed"]
    /\ error' = err
    /\ failure' = [task |-> i, step |-> task_pc[i]]
    /\ UNCHANGED pc_main

\* future i returns Err: try_join_all drops every future and returns the Err,
\* and `.await?` returns it from main
Fail(i, err) ==
    /\ task_pc' = [task_pc EXCEPT ![i] = "failed"]
    /\ error' = err
    /\ failure' = [task |-> i, step |-> task_pc[i]]
    /\ pc_main' = "exit_err"

ReadInput ==
    /\ pc_main = "read"
    /\ IF ~input_file.readable
       THEN /\ pc_main' = "exit_err"
            /\ error' = [kind |-> "Io"]
            /\ UNCHANGED <<users, task_pc, address, sequence, results, queries>>
       ELSE LET r == from_str(input_file) IN
            IF ~r.ok
            THEN /\ pc_main' = "exit_err"
                 /\ error' = [kind |-> r.kind]
                 /\ UNCHANGED <<users, task_pc, address, sequence, results, queries>>
            ELSE LET us == truncate(r.val, BATCH_CAP) IN
                 /\ users' = us
                 /\ task_pc' = [i \in 1..Len(us) |-> "init"]
                 /\ address' = [i \in 1..Len(us) |-> <<>>]
                 /\ sequence' = [i \in 1..Len(us) |-> 0]
                 /\ results' = [i \in 1..Len(us) |-> NoResult]
                 /\ queries' = [i \in 1..Len(us) |-> <<>>]
                 /\ pc_main' = "join"
                 /\ UNCHANGED error
    /\ UNCHANGED <<input_file, remote, fs_write_ok, overflow_checks, console,
                   output_file, failure, norm_vars, fold_vars>>

\* the first poll of future i: lines 91-94, up to the first await.
\* try_join_all polls its futures in order, so i is first polled after i-1.
Spawn(i) ==
    /\ pc_main = "join"
    /\ task_pc[i] = "init"
    /\ \A j \in 1..(i - 1) : task_pc[j] # "init"
    /\ LET n == normalize(users[i].address) IN
       IF ~n.ok
       THEN /\ Fail(i, [kind |-> "Bech32", err |-> n.err])
            /\ UNCHANGED <<address, queries>>
       ELSE /\ address' = [address EXCEPT ![i] = n.address]
            /\ Issue(i, [call |-> "auth_connect"])
            /\ task_pc' = [task_pc EXCEPT ![i] = "auth_connect"]
            /\ UNCHANGED <<pc_main, error, failure>>
    /\ UNCHANGED <<input_file, remote, fs_write_ok, overflow_checks, users,
                   sequence, results, console, output_file, norm_vars, fold_vars>>

\* a plausible slip: a connection that fails is attempted once more
AuthConnectedRetryOnce(i) ==
    /\ pc_main = "join"
    /\ task_pc[i] = "auth_connect"
    /\ IF remote[address[i]].auth_connect # "ok"
       THEN IF Len(queries[i]) < 2
            THEN /\ Issue(i, [call |-> "auth_connect"])
                 /\ UNCHANGED <<task_pc, pc_main, error, failure>>
            ELSE /\ Fail(i, [kind |-> "Transport"])
                 /\ UNCHANGED queries
       ELSE /\ \A j \in Tasks : task_pc[j] # "init"
            /\ Issue(i, [call |-> "account", address |-> address[i]])
            /\ task_pc' = [task_pc EXCEPT ![i] = "account"]
            /\ UNCHANGED <<pc_main, error, failure>>
    /\ UNCHANGED <<input_file, remote, fs_write_ok, overflow_checks, users,
                   address, sequence, results, console, output_file,
                   norm_vars, fold_vars>>

\* auth QueryClient::connect(..).await? resolves; .account(..) is sent (94-98).
\* A connection is not established within the poll that starts it, so it
\* resolves in a later poll of the join, after the first poll has started
\* every future; a connect error may come at once.
AuthConnected(i) ==
    /\ pc_main = "join"
    /\ task_pc[i] = "auth_connect"
    /\ IF remote[address[i]].auth_connect # "ok"
       THEN /\ Fail(i, [kind |-> "Transport"])
            /\ UNCHANGED queries
       ELSE /\ \A j \in Tasks : task_pc[j] # "init"
            /\ Issue(i, [call |-> "account", address |-> address[i]])
            /\ task_pc' = [task_pc EXCEPT ![i] = "account"]
            /\ UNCHANGED <<pc_main, error, failure>>
    /\ UNCHANGED <<input_file, remote, fs_write_ok, overflow_checks, users,
                   address, sequence, results, console, output_file,
                   norm_vars, fold_vars>>

\* .account(..).await? resolves; the account is decoded; staking connect (99-110)
AccountReplied(i) ==
    /\ pc_main = "join"
    /\ task_pc[i] = "account"
    \* no timeout is set on the channel or the request: the await resolves
    \* only when the endpoint answers
    /\ remote[address[i]].account.status # "pending"
    /\ LET reply == remote[address[i]].account
           acc   == extract_sequence(reply.account, address[i])
       IN
       IF reply.status # "ok"
       THEN /\ Fail(i, [kind |-> "Status"])
            /\ UNCHANGED <<sequence, queries>>
       ELSE IF ~acc.ok
       THEN /\ Fail(i, acc.error)
            /\ UNCHANGED <<sequence, queries>>
       ELSE /\ sequence' = [sequence EXCEPT ![i] = acc.sequence]
            /\ Issue(i, [call |-> "staking_connect"])
            /\ task_pc' = [task_pc EXCEPT ![i] = "staking_connect"]
            /\ UNCHANGED <<pc_main, error, failure>>
    /\ UNCHANGED <<input_file, remote, fs_write_ok, overflow_checks, users,
                   address, results, console, output_file, norm_vars, fold_vars>>

\* staking QueryClient::connect(..).await? resolves; the request is sent (110-115)
StakingConnected(i) ==
    /\ pc_main = "join"
    /\ task_pc[i] = "staking_connect"
    /\ IF remote[address[i]].staking_connect # "ok"
       THEN /\ Fail(i, [kind |-> "Transport"])
            /\ UNCHANGED queries
       ELSE /\ Issue(i, [call |-> "delegator_delegations", address |-> address[i]])
            /\ task_pc' = [task_pc EXCEPT ![i] = "delegator_delegations"]
            /\ UNCHANGED <<pc_main, error, failure>>
    /\ UNCHANGED <<input_file, remote, fs_write_ok, overflow_checks, users,
                   address, sequence, results, console, output_file,
                   norm_vars, fold_vars>>

\* a plausible slip: the record is built but the line is not printed
EmitNothing(i, out) == UNCHANGED console

\* println!("{output_str}") (main.rs:134-135)
Emit(i, out) == console' = Append(console, [task |-> i, line |-> out])

\* .delegator_delegations(..).await? resolves; sum, record, println (116-138)
DelegationsReplied(i) ==
    /\ pc_main = "join"
    /\ task_pc[i] = "delegator_delegations"
    /\ remote[address[i]].delegations.status # "pending"
    /\ LET reply == remote[address[i]].delegations
           staked == try_fold(reply.delegation_responses, overflow_checks)
       IN
       IF reply.status # "ok"
       THEN /\ Fail(i, [kind |-> "Status"])
            /\ UNCHANGED <<results, console>>
       ELSE IF staked.kind = "err"
       THEN /\ Fail(i, staked.error)
            /\ UNCHANGED <<results, console>>
       ELSE IF staked.kind = "panic"
       THEN \* attempt to add with overflow: the thread running main unwinds
            /\ task_pc' = [task_pc EXCEPT ![i] = "failed"]
            /\ error' = [kind |-> "panic"]
            /\ failure' = [task |-> i, step |-> task_pc[i]]
            /\ pc_main' = "panicked"
            /\ UNCHANGED <<results, console>>
       ELSE LET out == Output(address[i], sequence[i], users[i].amount, staked.total)
            IN  /\ Emit(i, out)
                /\ results' = [results EXCEPT ![i] = [present |-> TRUE, output |-> out]]
                /\ task_pc' = [task_pc EXCEPT ![i] = "done"]
                /\ UNCHANGED <<pc_main, error, failure>>
    /\ UNCHANGED <<input_file, remote, fs_write_ok, overflow_checks, users,
                   address, sequence, queries, output_file, norm_vars, fold_vars>>

\* every future returned Ok: the records are serialized and written (141-146)
Finish ==
    /\ pc_main = "join"
    /\ \A i \in Tasks : task_pc[i] = "done"
    /\ IF fs_write_ok
       THEN /\ output_file' = [written |-> TRUE, records |-> JoinResults]
            /\ pc_main' = "exit_ok"
            /\ UNCHANGED error
       ELSE /\ pc_main' = "exit_err"
            /\ error' = [kind |-> "Io"]
            /\ UNCHANGED output_file
    /\ UNCHANGED <<input_file, remote, fs_write_ok, overflow_checks, users,
                   task_pc, address, sequence, results, queries, console,
                   failure, norm_vars, fold_vars>>

-----------------------------------------------------------------------------
(* The runs explored: input files and remote replies *)

\* number of entries of the input files enumerated exhaustively
MaxInputs == 2

\* "1000", "250"
AMOUNT_1000 == <<49, 48, 48, 48>>
AMOUNT_250 == <<50, 53, 48>>

Entry(a, amount) == [address |-> a, amount |-> amount]

Entries ==
    { Entry(ADDR_MARS_A, Num(AMOUNT_1000)),
      Entry(ADDR_OSMO_A, Num(AMOUNT_250)), Entry(ADDR_MARS_B, Num(AMOUNT_1000)),
      Entry(BAD_CHECKSUM, Num(AMOUNT_1000)), Entry(BAD_CHAR, Num(AMOUNT_1000)),
      Entry(BAD_LENGTH, Num(AMOUNT_1000)) }

ShortLists == UNION { [1..n -> Entries] : n \in 0..MaxInputs }

\* files longer than the cap
LongLists ==
    { << Entry(ADDR_MARS_A, Num(AMOUNT_1000)), Entry(ADDR_MARS_B, Num(AMOUNT_1000)),
         Entry(ADDR_OSMO_A, Num(AMOUNT_250)), Entry(ADDR_MARS_A, Num(AMOUNT_250)),
         Entry(ADDR_MARS_B, Num(AMOUNT_1000)), Entry(BAD_CHECKSUM, Num(AMOUNT_1000)) >>,
      \* the sixth address is valid and is not among the first five
      << Entry(ADDR_MARS_A, Num(AMOUNT_250)), Entry(ADDR_OSMO_A, Num(AMOUNT_250)),
         Entry(ADDR_MARS_A, Num(AMOUNT_1000)), Entry(ADDR_OSMO_A, Num(AMOUNT_1000)),
         Entry(ADDR_MARS_A, Num(AMOUNT_1000)), Entry(ADDR_MARS_B, Num(AMOUNT_1000)),
         Entry(ADDR_MARS_A, Num(AMOUNT_250)) >> }

File(entries) == [readable |-> TRUE, valid_json |-> TRUE, entries |-> entries]

BadFiles ==
    { [readable |-> FALSE, valid_json |-> FALSE, entries |-> <<>>],
      [readable |-> TRUE, valid_json |-> FALSE, entries |-> <<>>],
      \* "amount": "1000", a JSON string
      File(<< Entry(ADDR_MARS_A, Str(AMOUNT_1000)) >>),
      \* the seventh amount is -5
      File(<< Entry(ADDR_MARS_A, Num(AMOUNT_1000)), Entry(ADDR_MARS_B, Num(AMOUNT_1000)),
              Entry(ADDR_MARS_A, Num(AMOUNT_1000)), Entry(ADDR_MARS_B, Num(AMOUNT_1000)),
              Entry(ADDR_MARS_A, Num(AMOUNT_1000)), Entry(ADDR_MARS_B, Num(AMOUNT_1000)),
              Entry(ADDR_MARS_A, Num(<<45, 53>>)) >>) }

InputFiles == { File(l) : l \in ShortLists \cup LongLists } \cup BadFiles

Worlds ==
    { Healthy(0, <<>>),
      Healthy(3, DELS_17),
      Healthy(3, DELS_BAD),
      Healthy(3, DELS_OVERFLOW),
      World("ok", "ok", NoAccount, "ok", "ok", <<>>),
      World("ok", "ok", AnyMsg(VESTING_ACCOUNT, 3), "ok", "ok", <<>>),
      World("ok", "error", NoAccount, "ok", "ok", <<>>),
      World("transport", "ok", NoAccount, "ok", "ok", <<>>),
      World("ok", "ok", AnyMsg(BASE_ACCOUNT, 3), "transport", "ok", <<>>),
      World("ok", "ok", AnyMsg(BASE_ACCOUNT, 3), "ok", "error", <<>>) }

\* the replies explored for the files longer than the cap
LongWorlds == { Healthy(3, DELS_17), Healthy(0, <<>>),
                World("ok", "ok", NoAccount, "ok", "ok", <<>>) }

\* the addresses a run of this file can ask the endpoint about
Queried(file) ==
    { normalize(file.entries[i].address).address :
        i \in { j \in 1..Min(BATCH_CAP, Len(file.entries)) :
                  normalize(file.entries[j].address).ok } }

CanOverflow(r) ==
    \E a \in DOMAIN r : r[a].delegations.delegation_responses = DELS_OVERFLOW

NormIdle == norm_pc = "idle" /\ raw = <<>> /\ once = NoResult /\ twice = NoResult
FoldIdle ==
    /\ fold_pc = "idle" /\ fold_checks = FALSE /\ fold_list = <<>>
    /\ fold_result = NoResult
MainIdle ==
    /\ input_file = File(<<>>) /\ remote = <<>> /\ fs_write_ok = TRUE
    /\ overflow_checks = FALSE /\ pc_main = "idle" /\ users = <<>>
    /\ task_pc = <<>> /\ address = <<>> /\ sequence = <<>> /\ results = <<>>
    /\ queries = <<>> /\ console = <<>> /\ output_file = NotWritten
    /\ error = NoError /\ failure = [task |-> 0, step |-> "none"]

\* the state when main() starts: nothing read, nothing written
Init ==
    /\ input_file \in InputFiles
    /\ remote \in [Queried(input_file) ->
                     IF Len(input_file.entries) > MaxInputs THEN LongWorlds ELSE Worlds]
    /\ fs_write_ok \in BOOLEAN
    \* the build's overflow behaviour is only observable when a sum can overflow
    /\ overflow_checks \in (IF CanOverflow(remote) THEN BOOLEAN ELSE {TRUE})
    /\ pc_main = "read"
    /\ users = <<>>
    /\ task_pc = <<>>
    /\ address = <<>>
    /\ sequence = <<>>
    /\ results = <<>>
    /\ queries = <<>>
    /\ console = <<>>
    /\ output_file = NotWritten
    /\ error = NoError
    /\ failure = [task |-> 0, step |-> "none"]
    /\ NormIdle
    /\ FoldIdle

Next ==
    \/ ReadInput
    \/ \E i \in Tasks : Spawn(i)
    \/ \E i \in Tasks : AuthConnected(i)
    \/ \E i \in Tasks : AccountReplied(i)
    \/ \E i \in Tasks : StakingConnected(i)
    \/ \E i \in Tasks : DelegationsReplied(i)
    \/ Finish

Spec == Init /\ [][Next]_vars

-----------------------------------------------------------------------------
(* Runs against an endpoint that may leave a request unanswered *)

\* an endpoint that accepts a request and never answers it: status "pending"
LiveWorlds ==
    { Healthy(3, DELS_17),
      Healthy(0, <<>>),
      World("transport", "ok", NoAccount, "ok", "ok", <<>>),
      World("ok", "error", NoAccount, "ok", "ok", <<>>),
      World("ok", "pending", NoAccount, "ok", "ok", <<>>),
      World("ok", "ok", AnyMsg(BASE_ACCOUNT, 3), "ok", "pending", <<>>) }

LiveFiles ==
    { File(l) : l \in UNION { [1..n -> { Entry(ADDR_MARS_A, Num(AMOUNT_1000)),
                                         Entry(ADDR_MARS_B, Num(AMOUNT_250)) }] :
                               n \in 0..MaxInputs } }

InitLive ==
    /\ input_file \in LiveFiles
    /\ remote \in [Queried(input_file) -> LiveWorlds]
    /\ fs_write_ok \in BOOLEAN
    /\ overflow_checks = TRUE
    /\ pc_main = "read"
    /\ users = <<>>
    /\ task_pc = <<>>
    /\ address = <<>>
    /\ sequence = <<>>
    /\ results = <<>>
    /\ queries = <<>>
    /\ console = <<>>
    /\ output_file = NotWritten
    /\ error = NoError
    /\ failure = [task |-> 0, step |-> "none"]
    /\ NormIdle
    /\ FoldIdle

\* #[tokio::main] blocks on main's future and polls it whenever a pending call
\* has resolved: a step that stays possible is eventually taken
SpecLive == InitLive /\ [][Next]_vars /\ WF_vars(Next)

-----------------------------------------------------------------------------
(* The re-encoding alone, applied once and then to its own result *)

\* length of the payloads of the generated addresses
MaxPayload == 2

OSMO == <<111, 115, 109, 111>>
U5_SAMPLE == {0, 3, 17, 31}

Payloads == UNION { [1..n -> U5_SAMPLE] : n \in 0..MaxPayload }

\* a well-formed address: prefix, separator, payload, checksum of the variant
Bech32String(hrp, data, variant) ==
    LET cs == create_checksum(hrp, data, variant)
    IN  hrp \o <<SEP>> \o [i \in 1..Len(data) |-> CHARSET[data[i] + 1]] \o
        [i \in 1..6 |-> CHARSET[cs[i] + 1]]

WellFormed ==
    { Bech32String(h, d, v) : h \in {MARS, OSMO, <<97>>}, d \in Payloads,
                              v \in {"Bech32", "Bech32m"} }

\* the last checksum character replaced by the next one of the charset
CorruptChecksum(s) ==
    [s EXCEPT ![Len(s)] = CHARSET[((CHARSET_REV(s[Len(s)]) + 1) % 32) + 1]]
\* the last character replaced by 'b', which is not in the charset
CorruptChar(s) == [s EXCEPT ![Len(s)] = 98]
\* cut to five characters after the separator
CutShort(s) == SubSeq(s, 1, rfind_sep(s) + 5)
\* the separator removed
NoSeparator(s) == SubSeq(s, 1, rfind_sep(s) - 1) \o SubSeq(s, rfind_sep(s) + 1, Len(s))
\* only the first character in upper case
MixCase(s) == [s EXCEPT ![1] = to_upper(s[1])]

\* "a12uel5l", "A12UEL5L" (BIP-173) and "a1lqfn3a" (BIP-350)
BIP173_A == <<97, 49, 50, 117, 101, 108, 53, 108>>
BIP173_A_UPPER == <<65, 49, 50, 85, 69, 76, 53, 76>>
BIP350_A == <<97, 49, 108, 113, 102, 110, 51, 97>>

RawStrings ==
    WellFormed
    \cup { to_uppercase(s) : s \in WellFormed }
    \cup { CorruptChecksum(s) : s \in WellFormed }
    \cup { CorruptChar(s) : s \in WellFormed }
    \cup { CutShort(s) : s \in WellFormed }
    \cup { NoSeparator(s) : s \in WellFormed }
    \cup { MixCase(s) : s \in WellFormed }
    \cup FileAddresses
    \cup { BIP173_A, BIP173_A_UPPER, BIP350_A }

InitNorm ==
    /\ raw \in RawStrings
    /\ norm_pc = "start"
    /\ once = NoResult
    /\ twice = NoResult
    /\ MainIdle
    /\ FoldIdle

NormalizeOnce ==
    /\ norm_pc = "start"
    /\ once' = normalize(raw)
    /\ norm_pc' = "once"
    /\ UNCHANGED <<raw, twice, main_vars, fold_vars>>

NormalizeAgain ==
    /\ norm_pc = "once"
    /\ once.ok
    /\ twice' = normalize(once.address)
    /\ norm_pc' = "twice"
    /\ UNCHANGED <<raw, once, main_vars, fold_vars>>

NextNorm == NormalizeOnce \/ NormalizeAgain

SpecNorm == InitNorm /\ [][NextNorm]_vars

-----------------------------------------------------------------------------
(* The sum alone, applied to one delegation list *)

\* number of entries of the delegation lists
MaxDelegations == 3

\* none, "5", "12", "+5", "x", "-1", "", "1", u128::MAX, 2^128
BalancePool ==
    { NoBalance, Balance(<<53>>), Balance(<<49, 50>>), Balance(<<43, 53>>),
      Balance(<<120>>), Balance(<<45, 49>>), Balance(<<>>), Balance(<<49>>),
      Balance(to_string(U128_MAX)), Balance(to_string(TWO_POW_128)) }

DelegationLists == UNION { [1..n -> BalancePool] : n \in 0..MaxDelegations }

InitFold ==
    /\ fold_list \in DelegationLists
    /\ fold_checks \in BOOLEAN
    /\ fold_pc = "start"
    /\ fold_result = NoResult
    /\ MainIdle
    /\ NormIdle

Fold ==
    /\ fold_pc = "start"
    /\ fold_result' = try_fold(fold_list, fold_checks)
    /\ fold_pc' = "done"
    /\ UNCHANGED <<fold_list, fold_checks, main_vars, norm_vars>>

NextFold == Fold

SpecFold == InitFold /\ [][NextFold]_vars

-----------------------------------------------------------------------------
(* Properties of the run *)

\* the number a JSON number token denotes
TokenValue(tok) == [k \in 1..Len(tok.text) |-> tok.text[k] - 48]

\* the console lines printed by future i
LinesOf(i) == { k \in 1..Len(console) : console[k].task = i }

\* future i's account request has been answered
AccountAnswered(i) ==
    \/ task_pc[i] \in {"staking_connect", "delegator_delegations", "done"}
    \/ /\ task_pc[i] = "failed" /\ failure.task = i
       /\ failure.step \in {"account", "staking_connect", "delegator_delegations"}

\* the endpoint's replies for input i's address, once re-encoded
ReplyFor(i) == remote[normalize(input_file.entries[i].address).address]

\* C1: when the output is written it holds one record per processed input,
\* record i belongs to input i: it carries input i's address re-encoded under
\* "mars", the sequence of the account reply for that address, input i's amount
\* unchanged, and the sum of the delegation reply for that same address.
C1_RecordsMatchInputs ==
    output_file.written =>
        /\ Len(output_file.records) = Len(users)
        /\ Len(users) = Min(BATCH_CAP, Len(input_file.entries))
        /\ \A i \in 1..Len(output_file.records) :
             LET e   == input_file.entries[i]
                 rec == output_file.records[i]
             IN  /\ Decodes(e.address)
                 /\ rec.address = normalize(e.address).address
                 /\ rec.sequence = ReplyFor(i).account.account.sequence
                 /\ rec.airdrop_amount = TokenValue(e.amount)
                 /\ rec.staked_amount =
                        try_fold(ReplyFor(i).delegations.delegation_responses,
                                 overflow_checks).total

\* C1 witness: an output of two records that differ in every field
C1_Witness ==
    /\ output_file.written
    /\ Len(output_file.records) = 2
    /\ output_file.records[1].address # output_file.records[2].address
    /\ output_file.records[1].sequence # output_file.records[2].sequence
    /\ output_file.records[1].airdrop_amount # output_file.records[2].airdrop_amount
    /\ output_file.records[1].staked_amount # output_file.records[2].staked_amount

FailureKinds ==
    {"Bech32", "Transport", "Status", "Decode", "ParseInt", "AccountNotFound"}

\* C2: fail-fast join: once the future of any processed input has failed the
\* run has ended with that error and the output file is not written; the output
\* is written only when every future returned Ok, and then it is complete.
C2_FailFast ==
    /\ \A i \in Tasks :
         task_pc[i] = "failed" /\ error.kind \in FailureKinds =>
             /\ pc_main = "exit_err"
             /\ failure.task = i
             /\ ~output_file.written
    /\ pc_main \in {"exit_err", "panicked"} =>
             error.kind # "none" /\ ~output_file.written
    /\ output_file.written =>
             /\ pc_main = "exit_ok"
             /\ \A i \in Tasks : task_pc[i] = "done" /\ results[i].present
             /\ Len(output_file.records) = Len(users)

\* C2 witness: one future has printed its record, another one failed, and the
\* run ended without an output
C2_Witness ==
    /\ pc_main = "exit_err"
    /\ \E i, j \in Tasks : task_pc[i] = "failed" /\ task_pc[j] = "done"
    /\ ~output_file.written

\* C3: an account reply without an account fails the future with
\* AccountNotFound carrying the re-encoded address and yields no record; a reply
\* with an account whose sequence is 0 does not fail there, and its record has
\* sequence 0.
C3_NotFound ==
    \A i \in Tasks :
        AccountAnswered(i) /\ remote[address[i]].account.status = "ok" =>
            LET acc == remote[address[i]].account.account IN
            /\ ~acc.present =>
                 /\ task_pc[i] = "failed"
                 /\ failure = [task |-> i, step |-> "account"]
                 /\ error = [kind |-> "AccountNotFound",
                             address |-> normalize(users[i].address).address]
                 /\ ~results[i].present
                 /\ LinesOf(i) = {}
                 /\ ~output_file.written
            /\ (acc.present /\ acc.type_url = BASE_ACCOUNT /\ acc.sequence = 0) =>
                 /\ ~(task_pc[i] = "failed" /\ failure.step = "account")
                 /\ sequence[i] = 0
                 /\ results[i].present => results[i].output.sequence = 0

\* C3 witness: both cases in one run: an address without an account failed, and
\* an account with sequence 0 has its record
C3_Witness ==
    \E i, j \in Tasks :
        /\ task_pc[i] = "failed" /\ error.kind = "AccountNotFound"
        /\ task_pc[j] = "done" /\ results[j].output.sequence = 0

-----------------------------------------------------------------------------
(* Properties of the sum *)

\* an unsigned integer in decimal notation: an optional '+', then digits
IsUnsignedIntString(str) ==
    LET digits == IF Len(str) > 0 /\ str[1] = 43 THEN Tail(str) ELSE str
    IN  Len(digits) > 0 /\ \A k \in 1..Len(digits) : is_digit(digits[k])

\* the number such a string denotes
StringValue(str) ==
    LET digits == IF str[1] = 43 THEN Tail(str) ELSE str
    IN  strip_zeros([k \in 1..Len(digits) |-> digits[k] - 48])

\* the arithmetic sum of the balances present in the first n entries
RECURSIVE MathSum(_, _)
MathSum(dels, n) ==
    IF n = 0 THEN ZERO
    ELSE IF dels[n].present
         THEN DecAdd(MathSum(dels, n - 1), StringValue(dels[n].amount))
         ELSE MathSum(dels, n - 1)

AllPresentValid(dels) ==
    \A k \in 1..Len(dels) : dels[k].present => IsUnsignedIntString(dels[k].amount)

\* C4 as stated: whenever every present balance is an unsigned integer string,
\* the fold returns the arithmetic sum of the present balances.
C4_SumOfAnyIntegers ==
    fold_pc = "done" /\ AllPresentValid(fold_list) =>
        fold_result = [kind |-> "ok", total |-> MathSum(fold_list, Len(fold_list))]

\* C4, amended: whenever every present balance is an unsigned integer string
\* and the arithmetic sum of the present balances does not exceed 2^128 - 1,
\* the fold returns that sum; an entry without a balance adds nothing, and the
\* empty list gives 0 without an error.
C4_SumWithinU128 ==
    fold_pc = "done" =>
        /\ (AllPresentValid(fold_list)
              /\ fits_u128(MathSum(fold_list, Len(fold_list)))) =>
             fold_result = [kind |-> "ok",
                            total |-> MathSum(fold_list, Len(fold_list))]
        /\ fold_list = <<>> => fold_result = [kind |-> "ok", total |-> ZERO]

\* C4 witness: "5", no balance, "12" summed to 17
C4_Witness ==
    /\ fold_pc = "done"
    /\ fold_list = DELS_17
    /\ fold_result = [kind |-> "ok", total |-> <<1, 7>>]

SomePresentInvalid(dels) ==
    \E k \in 1..Len(dels) : dels[k].present /\ ~IsUnsignedIntString(dels[k].amount)

\* C5 as stated: a present balance that is not a non-negative integer string
\* makes the fold fail with a parse error, wherever it stands in the list and
\* whatever the other entries are.
C5_AlwaysParseError ==
    fold_pc = "done" /\ SomePresentInvalid(fold_list) =>
        fold_result = [kind |-> "err", error |-> [kind |-> "ParseInt"]]

\* C5, amended: a present balance that is not a non-negative integer string
\* never lets the fold return a sum (so no record is built: the entry is neither
\* counted as zero nor skipped); the fold fails with a parse error, except that
\* in a build with overflow checks an earlier addition that overflows 128 bits
\* panics before the bad entry is reached.
C5_BadBalanceFails ==
    fold_pc = "done" /\ SomePresentInvalid(fold_list) =>
        /\ fold_result.kind # "ok"
        /\ fold_result.kind = "err" => fold_result.error = [kind |-> "ParseInt"]
        /\ fold_result.kind = "panic" =>
             /\ fold_checks
             /\ \E n \in 1..Len(fold_list) :
                  /\ AllPresentValid(SubSeq(fold_list, 1, n))
                  /\ ~fits_u128(MathSum(fold_list, n))

\* C5 witness: the bad entry is the last one, after two good ones
C5_Witness ==
    /\ fold_pc = "done"
    /\ Len(fold_list) = 3
    /\ fold_list[1] = Balance(<<53>>) /\ fold_list[2] = Balance(<<49, 50>>)
    /\ fold_list[3] = Balance(<<120>>)
    /\ fold_result.kind = "err"

-----------------------------------------------------------------------------
(* Properties of the run, continued *)

\* every address a request of any future has carried
RequestAddresses ==
    UNION { { queries[j][k].address :
                k \in { m \in 1..Len(queries[j]) :
                          queries[j][m].call \in {"account", "delegator_delegations"} } } :
            j \in Tasks }

\* C6: an input whose address does not decode fails at the re-encoding: no
\* connection and no request is ever issued for it, its raw string is never
\* used as an address (in a request, on the console or in the output), and
\* its future ends with the bech32 error before its first await.
C6_BadAddressRejected ==
    \A i \in Tasks :
        ~Decodes(users[i].address) =>
            /\ queries[i] = <<>>
            /\ address[i] = <<>>
            /\ ~results[i].present
            /\ LinesOf(i) = {}
            /\ users[i].address \notin RequestAddresses
            /\ \A k \in 1..Len(console) : console[k].line.address # users[i].address
            /\ ~output_file.written
            /\ task_pc[i] \in {"init", "failed"}
            /\ task_pc[i] = "failed" =>
                 /\ error.kind = "Bech32"
                 /\ failure = [task |-> i, step |-> "init"]
                 /\ pc_main = "exit_err"

\* C6 witness: the second address has a corrupted checksum; its future failed
\* when first polled, after the first future had started connecting
C6_Witness ==
    /\ Len(users) = 2
    /\ users[2].address = BAD_CHECKSUM
    /\ task_pc[2] = "failed"
    /\ error = [kind |-> "Bech32", err |-> "InvalidChecksum"]
    /\ queries[1] = << [call |-> "auth_connect"] >>
    /\ queries[2] = <<>>

\* whether input i's future succeeds, from the file and the replies alone
Succeeds(i) ==
    /\ Decodes(input_file.entries[i].address)
    /\ ReplyFor(i).auth_connect = "ok"
    /\ ReplyFor(i).account.status = "ok"
    /\ ReplyFor(i).account.account.present
    /\ ReplyFor(i).account.account.type_url = BASE_ACCOUNT
    /\ ReplyFor(i).staking_connect = "ok"
    /\ ReplyFor(i).delegations.status = "ok"
    /\ \A k \in 1..Len(ReplyFor(i).delegations.delegation_responses) :
         LET del == ReplyFor(i).delegations.delegation_responses[k] IN
         del.present => IsUnsignedIntString(del.amount)
                        /\ fits_u128(StringValue(del.amount))
    /\ \/ ~overflow_checks
       \/ \A n \in 1..Len(ReplyFor(i).delegations.delegation_responses) :
            fits_u128(MathSum(ReplyFor(i).delegations.delegation_responses, n))

\* the sum of a reply's balances as a 128-bit accumulator holds it
RECURSIVE SumMod(_, _)
SumMod(dels, n) ==
    IF n = 0 THEN ZERO
    ELSE IF dels[n].present
         THEN LET t == DecAdd(SumMod(dels, n - 1), StringValue(dels[n].amount))
              IN  IF fits_u128(t) THEN t ELSE DecSub(t, TWO_POW_128)
         ELSE SumMod(dels, n - 1)

ProcessedInputs == 1..Min(BATCH_CAP, Len(input_file.entries))

\* the one output the file and the replies determine
DeterminedOutput ==
    [i \in ProcessedInputs |->
        [address |-> normalize(input_file.entries[i].address).address,
         sequence |-> ReplyFor(i).account.account.sequence,
         airdrop_amount |-> TokenValue(input_file.entries[i].amount),
         staked_amount |->
             SumMod(ReplyFor(i).delegations.delegation_responses,
                    Len(ReplyFor(i).delegations.delegation_responses))]]

RunEnded == pc_main \in {"exit_ok", "exit_err", "panicked"}

\* C7: the outcome does not depend on the interleaving: for a given input file
\* and given replies, a run that has ended has written the output exactly when
\* every future succeeds on those replies (and the file could be written), and
\* the written output is the one the file and the replies determine, whatever
\* the order in which the futures completed.
C7_Deterministic ==
    /\ output_file.written => RunEnded
    /\ (RunEnded /\ input_file.readable /\ from_str(input_file).ok) =>
          /\ output_file.written <=>
                 (fs_write_ok /\ \A i \in ProcessedInputs : Succeeds(i))
          /\ output_file.written => output_file.records = DeterminedOutput

\* C7 witness: an output written by a run whose futures completed in an order
\* other than the input order
C7_Witness ==
    /\ output_file.written
    /\ Len(console) >= 2
    /\ console[1].task # 1
    /\ output_file.records[1] # output_file.records[2]

InFlight == {"auth_connect", "account", "staking_connect", "delegator_delegations"}

\* C8 as stated: a failure does not abort the sibling futures: when the run
\* has ended on a failure, every other future that was started has reached its
\* own outcome.
C8_SiblingsReachOutcome ==
    (pc_main = "exit_err" /\ failure.task # 0) =>
        \A j \in Tasks : task_pc[j] \notin InFlight

\* C8, amended: a failure in one future ends the join at once: from then on
\* nothing else happens for any future; a sibling still in flight is dropped
\* where it stands, issues no further connection or request, prints nothing
\* and reaches no outcome; a sibling that had finished keeps its record; the
\* output is not written.
C8_FailureDropsSiblings ==
    [][ (\E i \in Tasks : task_pc[i] = "failed") =>
            UNCHANGED <<task_pc, queries, console, results, output_file,
                        address, sequence, error, failure, pc_main>> ]_vars

\* C8 witness: the run ended on a failure while one sibling was waiting for a
\* reply and another had finished
C8_Witness ==
    /\ pc_main = "exit_err"
    /\ \E i, j, k \in Tasks :
         /\ task_pc[i] = "failed"
         /\ task_pc[j] \in InFlight
         /\ task_pc[k] = "done"

\* C9: a future that returns Ok has printed its record exactly once, in the
\* step that produced it, hence before the output is written and whether or
\* not the run later fails; a future that has not returned Ok has printed
\* nothing; every record of a written output is on the console.
C9_ProgressPrinted ==
    /\ \A i \in Tasks :
         /\ task_pc[i] = "done" <=> results[i].present
         /\ results[i].present =>
              /\ Cardinality(LinesOf(i)) = 1
              /\ \A k \in LinesOf(i) : console[k].line = results[i].output
         /\ ~results[i].present => LinesOf(i) = {}
    /\ \A k \in 1..Len(console) : console[k].task \in Tasks
    /\ output_file.written =>
         \A i \in 1..Len(output_file.records) :
             \E k \in LinesOf(i) : console[k].line = output_file.records[i]

\* C9 witness: a record was printed and the run then failed on another address
C9_Witness ==
    /\ pc_main = "exit_err"
    /\ failure.task # 0
    /\ Len(console) = 1
    /\ console[1].task # failure.task
    /\ ~output_file.written

-----------------------------------------------------------------------------
(* Properties of the re-encoding *)

\* lower case, "mars" before the only separator, and accepted by the decoder
InNormalizedForm(str) ==
    /\ Len(str) >= 5
    /\ SubSeq(str, 1, 5) = MARS \o <<SEP>>
    /\ rfind_sep(str) = 5
    /\ \A k \in 1..Len(str) : ~is_uppercase(str[k])
    /\ decode(str).ok

\* C10: re-encoding is idempotent: for every address the decoder accepts, the
\* re-encoding of its re-encoding is the re-encoding again; and an address
\* already in normalized form is returned unchanged.
C10_NormalizeIdempotent ==
    /\ (norm_pc # "start" /\ decode(raw).ok) => once.ok
    /\ norm_pc = "twice" => twice.ok /\ twice.address = once.address
    /\ (norm_pc # "start" /\ InNormalizedForm(raw)) =>
          once.ok /\ once.address = raw

\* C10 witness: an upper-case address under another prefix, re-encoded twice
\* to the lower-case mars address
C10_Witness ==
    /\ norm_pc = "twice"
    /\ raw = to_uppercase(ADDR_OSMO_A)
    /\ once.address = ADDR_MARS_A
    /\ twice.address = ADDR_MARS_A


-----------------------------------------------------------------------------
(* Properties of the remote calls *)

\* the calls of one future, in the order of the code
CallsOf(a) ==
    << [call |-> "auth_connect"],
       [call |-> "account", address |-> a],
       [call |-> "staking_connect"],
       [call |-> "delegator_delegations", address |-> a] >>

\* how many calls a future has issued when it waits at, or failed at, a step
IssuedAt(step) ==
    CASE step = "init" -> 0
      [] step = "auth_connect" -> 1
      [] step = "account" -> 2
      [] step = "staking_connect" -> 3
      [] step \in {"delegator_delegations", "done"} -> 4

\* C11: no retries: the calls a future has issued are a prefix of one
\* connection attempt, one account query, one connection attempt and one
\* delegation query, each at most once and for the future's own address; a
\* future that failed at a call (transport or status) has issued that call
\* once and nothing after it.
C11_NoRetries ==
    \A i \in Tasks :
        /\ Len(queries[i]) <= 4
        /\ queries[i] = SubSeq(CallsOf(address[i]), 1, Len(queries[i]))
        /\ task_pc[i] # "failed" => Len(queries[i]) = IssuedAt(task_pc[i])
        /\ (task_pc[i] = "failed" /\ failure.task = i) =>
              /\ Len(queries[i]) = IssuedAt(failure.step)
              /\ pc_main \in {"exit_err", "panicked"}
              /\ error.kind \in {"Transport", "Status"} =>
                    failure.step \in InFlight

\* C11 witness: the staking connection failed after the account was found; the
\* run ended with three calls issued for that address, none of them twice
C11_Witness ==
    /\ pc_main = "exit_err"
    /\ error.kind = "Transport"
    /\ failure.step = "staking_connect"
    /\ Len(queries[failure.task]) = 3
    /\ \E j \in Tasks : j # failure.task /\ Len(queries[j]) = 4

-----------------------------------------------------------------------------
(* Termination *)

Unanswered(w) == w.account.status = "pending" \/ w.delegations.status = "pending"

\* C12: every run eventually terminates, with the output written or with an
\* error, also when a remote call never responds (a per-call timeout bounds it).
C12_EventuallyTerminates == <>RunEnded

\* the runs in which the endpoint answers every request do terminate
C12_TerminatesWhenAnswered ==
    (\A a \in DOMAIN remote : ~Unanswered(remote[a])) => <>RunEnded

\* a run blocked for good: a future waits for a reply that never comes while a
\* sibling has finished, and no step is possible
C12_Blocked ==
    /\ pc_main = "join"
    /\ \E i, j \in Tasks :
         /\ task_pc[i] = "account"
         /\ remote[address[i]].account.status = "pending"
         /\ task_pc[j] = "done"
    /\ ~ENABLED Next

-----------------------------------------------------------------------------
(* Properties of the input file *)

\* an amount of the expected shape: a JSON number, non-negative, within 128 bits
AmountOk(tok) ==
    /\ tok.json_type = "number"
    /\ Len(tok.text) > 0
    /\ \A k \in 1..Len(tok.text) : is_digit(tok.text[k])
    /\ fits_u128(strip_zeros(TokenValue(tok)))

\* the file can be read and is a JSON array of entries of the expected shape
InputOk ==
    /\ input_file.readable
    /\ input_file.valid_json
    /\ \A k \in 1..Len(input_file.entries) : AmountOk(input_file.entries[k].amount)

\* C13: an input file that cannot be read, is not valid JSON or holds an entry
\* of the wrong shape anywhere (also past the processed prefix) ends the run
\* with an Io or Json error at the read step: no invocation is started, no
\* connection or query is issued, nothing is printed and nothing is written.
C13_InputErrorsFirst ==
    ~InputOk =>
        /\ users = <<>>
        /\ task_pc = <<>>
        /\ queries = <<>>
        /\ console = <<>>
        /\ ~output_file.written
        /\ pc_main \in {"read", "exit_err"}
        /\ pc_main = "exit_err" =>
              /\ error.kind = (IF input_file.readable THEN "Json" ELSE "Io")
              /\ failure.task = 0

\* C13 witness: six good entries and a seventh whose amount is -5, with an
\* endpoint ready to answer for the first five: the run ended on the Json error
C13_Witness ==
    /\ Len(input_file.entries) = 7
    /\ ~AmountOk(input_file.entries[7].amount)
    /\ \A k \in 1..6 : AmountOk(input_file.entries[k].amount)
    /\ DOMAIN remote # {}
    /\ pc_main = "exit_err"
    /\ error.kind = "Json"

-----------------------------------------------------------------------------
(* Order of the two lookups *)

StakingCalls == {"staking_connect", "delegator_delegations"}

\* future i has issued a call to the staking module
StakingCalled(i) ==
    \E k \in 1..Len(queries[i]) : queries[i][k].call \in StakingCalls

\* the endpoint's account reply for future i holds an account that decodes
AccountFound(i) ==
    /\ remote[address[i]].auth_connect = "ok"
    /\ remote[address[i]].account.status = "ok"
    /\ remote[address[i]].account.account.present
    /\ remote[address[i]].account.account.type_url = BASE_ACCOUNT

\* C14: within one future the staking module is called only after the account
\* query returned an existing, decodable account, whose sequence the future
\* then holds; a future whose account lookup failed (transport, status, decode
\* or AccountNotFound) has called auth at most and never the staking module.
C14_DelegationAfterAccount ==
    \A i \in Tasks :
        /\ StakingCalled(i) =>
              /\ AccountFound(i)
              /\ AccountAnswered(i)
              /\ sequence[i] = remote[address[i]].account.account.sequence
              /\ \E k \in 1..Len(queries[i]) :
                    /\ queries[i][k].call = "account"
                    /\ \A m \in 1..k : queries[i][m].call \notin StakingCalls
        /\ (task_pc[i] = "failed" /\ failure.task = i
              /\ failure.step \in {"init", "auth_connect", "account"}) =>
              ~StakingCalled(i)
        /\ (address[i] # <<>> /\ ~AccountFound(i)) => ~StakingCalled(i)

\* C14 witness: one address has no account and failed with AccountNotFound
\* after its account query, while another went on to its delegation query
C14_Witness ==
    /\ error.kind = "AccountNotFound"
    /\ Len(queries[failure.task]) = 2
    /\ \E j \in Tasks :
         /\ j # failure.task
         /\ task_pc[j] = "delegator_delegations"
         /\ Len(queries[j]) = 4

-----------------------------------------------------------------------------
(* The batch cap *)

\* the addresses the processed prefix of the file re-encodes to
PrefixAddresses ==
    { normalize(input_file.entries[k].address).address :
        k \in { j \in ProcessedInputs : Decodes(input_file.entries[j].address) } }

\* every address on the console or in the written output
EmittedAddresses ==
    { console[k].line.address : k \in 1..Len(console) }
      \cup { output_file.records[k].address : k \in 1..Len(output_file.records) }

\* C15: only the first 5 inputs are processed: at most 5 futures exist, they
\* are the first min(5, n) entries in order, a written output has min(5, n)
\* records, every address queried, printed or written comes from the first
\* five entries, and a bech32 failure is always that of one of the first five.
C15_BatchCap ==
    /\ Len(users) <= 5
    /\ Len(queries) <= 5
    /\ (pc_main # "read" /\ InputOk) =>
          /\ Len(users) = Min(5, Len(input_file.entries))
          /\ \A i \in Tasks :
                /\ users[i].address = input_file.entries[i].address
                /\ users[i].amount = TokenValue(input_file.entries[i].amount)
    /\ output_file.written =>
          Len(output_file.records) = Min(5, Len(input_file.entries))
    /\ RequestAddresses \subseteq PrefixAddresses
    /\ EmittedAddresses \subseteq PrefixAddresses
    /\ \A k \in 6..Len(input_file.entries) :
          /\ ~Decodes(input_file.entries[k].address) =>
                input_file.entries[k].address \notin (RequestAddresses \cup EmittedAddresses)
          /\ failure.task # k
    /\ error.kind = "Bech32" =>
          /\ failure.task \in 1..5
          /\ ~Decodes(input_file.entries[failure.task].address)

\* C15 witness: a file of seven entries whose sixth address is valid and not
\* among the first five: the output is written with five records, none for it
C15_Witness ==
    /\ Len(input_file.entries) = 7
    /\ output_file.written
    /\ Len(output_file.records) = 5
    /\ Decodes(input_file.entries[6].address)
    /\ normalize(input_file.entries[6].address).address \notin EmittedAddresses
    /\ normalize(input_file.entries[6].address).address \notin RequestAddresses

\* a file of six entries whose sixth address does not decode, written all the same
C15_BadSixthIgnored ==
    /\ Len(input_file.entries) = 6
    /\ ~Decodes(input_file.entries[6].address)
    /\ output_file.written

-----------------------------------------------------------------------------
(* The range of the sum *)

\* the delegation reply future i sums
DelegationsOf(i) == remote[address[i]].delegations.delegation_responses

\* C16: the accumulation never wraps silently: a future that produced a record
\* summed balances whose arithmetic sum is within 2^128 - 1, so that the
\* record's staked_amount is that sum and not the sum modulo 2^128.
C16_NeverWraps ==
    \A i \in Tasks :
        results[i].present =>
            /\ fits_u128(MathSum(DelegationsOf(i), Len(DelegationsOf(i))))
            /\ results[i].output.staked_amount =
                   MathSum(DelegationsOf(i), Len(DelegationsOf(i)))

\* a record printed and written with staked_amount 0 for the balances
\* 2^128 - 1 and 1, by a build without overflow checks
C16_Wrapped ==
    /\ ~overflow_checks
    /\ output_file.written
    /\ \E i \in Tasks :
         /\ DelegationsOf(i) = DELS_OVERFLOW
         /\ AllPresentValid(DelegationsOf(i))
         /\ output_file.records[i].staked_amount = ZERO
         /\ ~fits_u128(MathSum(DelegationsOf(i), 2))

\* a build with overflow checks never produces a wrapped record: it panics
C16_CheckedBuildNeverWraps == overflow_checks => C16_NeverWraps

-----------------------------------------------------------------------------
(* Records and addresses *)

\* C17: the records of a written output are keyed by address: no two of them
\* carry the same address, whatever addresses the input holds.
C17_AddressesUnique ==
    output_file.written =>
        \A i, j \in 1..Len(output_file.records) :
            i # j => output_file.records[i].address # output_file.records[j].address

\* an output whose two records carry one address: the inputs were the same
\* payload under the prefixes mars and osmo, with different amounts
C17_SameKeyTwice ==
    /\ output_file.written
    /\ Len(output_file.records) = 2
    /\ users[1].address = ADDR_MARS_A
    /\ users[2].address = ADDR_OSMO_A
    /\ output_file.records[1].address = output_file.records[2].address
    /\ output_file.records[1].airdrop_amount # output_file.records[2].airdrop_amount
=============================================================================
